---- MODULE Spec2Model ----
(***************************************************************************)
(* A model of the grid quadtree of src/quadtree.hpp (version 0.1.5).       *)
(*                                                                         *)
(* The tree is modelled with an explicit heap: a node pointer is the tuple *)
(* <<d, x1, y1, x2, y2>> of the node it points to (two live nodes of one   *)
(* tree never share depth and rectangle), the heap maps live pointers to   *)
(* node records, and the id -> node cache m is a separate function, so     *)
(* that the cache and the child links can disagree when the code lets      *)
(* them.  Every method is an operator from a tree record to a tree record, *)
(* and the actions install the result of one public call.                  *)
(***************************************************************************)
EXTENDS Integers, Sequences, FiniteSets, Bags, TLC

\* ------------------------------------------------------------------------
\* Bounds of the model.
\* ------------------------------------------------------------------------

\* Add is no longer called once numObjects has reached this.
MaxObjects == 2
\* Payloads are the integers 1..MaxPayload.
MaxPayload == 2
\* Add and Remove are no longer called once numLeafNodes exceeds the number
\* of live leaf nodes by this much.
MaxLeafDrift == 2
\* How many steps outside the region the positions looked up may lie.
MaxOutside == 2
\* The regions <<w, h>> (width, height) a tree may be constructed on.
Regions == {<<3, 1>>, <<2, 3>>, <<3, 3>>, <<11, 1>>}
\* Regions wide enough for two nodes of one depth to be given the same id.
WideRegions == {<<19, 1>>}
\* Regions of two rows, wide enough for pack to leave a node inside a row.
TallRegions == {<<11, 2>>}
\* MAX_DEPTH scaled down, and regions of sides up to 2^ScaledMaxDepth - 1.
ScaledMaxDepth == 3
DeepRegions == {<<4, 1>>, <<5, 1>>, <<7, 1>>}
\* The spliting stoppers a tree may be constructed with.
Predicates == {"ssf1", "ssf2", "nullptr"}

\* ------------------------------------------------------------------------
\* Program constants.
\* ------------------------------------------------------------------------

MAX_DEPTH == 29
\* 2^29: the width of the two position fields of a node id.
FIELD29 == 536870912
\* 2^6: the width of the depth field of a node id.
FIELD6 == 64
\* 2^16: digit base used to divide 64-bit values with 32-bit arithmetic.
BASE16 == 65536
\* 2^8: uint8_t wrap-around of maxd and Node::d.
UINT8 == 256

VARIABLES
  w, h,            \* Quadtree::w, Quadtree::h
  maxDepth,        \* the MAX_DEPTH of the build: the length of numDepthTable
  ssf,             \* Quadtree::ssf, by name
  root,            \* Quadtree::root
  heap,            \* the live Node objects, by pointer
  m,               \* Quadtree::m, id -> pointer
  maxd,            \* Quadtree::maxd
  numDepthTable,   \* Quadtree::numDepthTable
  numObjects,      \* Quadtree::numObjects
  numLeafNodes,    \* Quadtree::numLeafNodes
  threw,           \* an uncaught std::out_of_range left a public call
  cnt,             \* the caller's counter: ++ in afterLeafCreated, -- in
                   \* afterLeafRemoved
  added            \* the in-region triples the caller has added and not
                   \* removed since

vars == <<w, h, maxDepth, ssf, root, heap, m, maxd, numDepthTable, numObjects,
          numLeafNodes, threw, cnt, added>>

\* ------------------------------------------------------------------------
\* Small helpers.
\* ------------------------------------------------------------------------

\* nullptr
NULL == <<>>
\* The value standing for "m.at(id) threw std::out_of_range".
OutOfRange == <<-1>>

Max(a, b) == IF a >= b THEN a ELSE b

EmptyMap == [x \in {} |-> x]
\* f with k mapped to v, and f without k; both built as explicit functions.
MapPut(f, k, v) == (k :> v) @@ f
MapDel(f, k) == [x \in (DOMAIN f) \ {k} |-> f[x]] @@ EmptyMap

RECURSIVE SumOver(_, _)
\* Sum of f[x] over the finite set S.
SumOver(f, S) ==
  IF S = {} THEN 0
  ELSE LET x == CHOOSE e \in S : TRUE IN f[x] + SumOver(f, S \ {x})

RECURSIVE Pow2(_)
\* 1 << n
Pow2(n) == IF n = 0 THEN 1 ELSE 2 * Pow2(n - 1)

\* ------------------------------------------------------------------------
\* pack: the node id.
\* ------------------------------------------------------------------------

\* floor((2^64 - k) / n) mod 2^29 for 1 <= k <= 2^16 and 1 <= n < 2^15,
\* by long division over the four base-2^16 digits of 2^64 - k.
DivNeg64(k, n) ==
  LET d1 == BASE16 - 1
      d4 == BASE16 - k
      r1 == d1 % n
      c2 == r1 * BASE16 + d1
      r2 == c2 % n
      c3 == r2 * BASE16 + d1
      q3 == c3 \div n
      r3 == c3 % n
      c4 == r3 * BASE16 + d4
      q4 == c4 \div n
  IN ((q3 % 8192) * BASE16 + q4) % FIELD29

\* ((1 << d) * x / n) & 0x1fffffff with x converted from int to uint64_t:
\* a negative x becomes 2^64 + x and the product wraps modulo 2^64.  For
\* x >= 0 the product is below 2^64; with x = q * n + r the quotient is
\* 2^d * q + floor(2^d * r / n), of which the mask keeps the low 29 bits.
packField(d, x, n) ==
  IF x >= 0
    THEN LET q == x \div n
             r == x % n
         IN ((q % (FIELD29 \div Pow2(d))) * Pow2(d) + (Pow2(d) * r) \div n)
              % FIELD29
  ELSE DivNeg64(Pow2(d) * (0 - x), n)

\* The three bit fields of the 64-bit id, kept apart: depth (6 bits),
\* floor(x*2^d/h) (29 bits), floor(y*2^d/w) (29 bits).
pack(d, x, y, pw, ph) ==
  <<d % FIELD6, packField(d, x, ph), packField(d, y, pw)>>

\* ------------------------------------------------------------------------
\* Nodes.
\* ------------------------------------------------------------------------

\* Node::Node
Node(isLeaf, d, x1, y1, x2, y2) ==
  [isLeaf |-> isLeaf, d |-> d, x1 |-> x1, y1 |-> y1, x2 |-> x2, y2 |-> y2,
   children |-> <<NULL, NULL, NULL, NULL>>, objects |-> {}]

\* The tree object as a record of its members, with the caller's counter and
\* the nodes passed to afterLeafCreated and afterLeafRemoved by the call that
\* is running (none between calls).
Self ==
  [root |-> root, heap |-> heap, m |-> m, maxd |-> maxd,
   numDepthTable |-> numDepthTable, numObjects |-> numObjects,
   numLeafNodes |-> numLeafNodes, threw |-> threw,
   cnt |-> cnt, createdArgs |-> {}, removedArgs |-> {}, seen |-> {}]

\* Quadtree::Quadtree: no nodes, all counters zero.
Quadtree ==
  [root |-> NULL, heap |-> EmptyMap, m |-> EmptyMap, maxd |-> 0,
   numDepthTable |-> [d \in 0..(maxDepth - 1) |-> 0], numObjects |-> 0,
   numLeafNodes |-> 0, threw |-> FALSE,
   cnt |-> 0, createdArgs |-> {}, removedArgs |-> {}, seen |-> {}]

\* What a callback can observe of the tree when it is called: the live nodes
\* with their leaf flags, and NumNodes, NumLeafNodes, NumObjects and Depth.
View(t) ==
  [leaf |-> [node \in DOMAIN t.heap |-> t.heap[node].isLeaf],
   numNodes |-> Cardinality(DOMAIN t.m),
   numLeafNodes |-> t.numLeafNodes,
   numObjects |-> t.numObjects,
   maxd |-> t.maxd]

\* The afterLeafCreated callback of the test suite, called once for each node
\* of the set nodes: cnt++.  seen keeps what the calls could observe.
afterLeafCreated(t, nodes) ==
  IF nodes = {} THEN t
  ELSE [t EXCEPT !.cnt = @ + Cardinality(nodes),
                 !.createdArgs = @ \cup nodes,
                 !.seen = @ \cup {[created |-> TRUE, args |-> nodes,
                                    view |-> View(t)]}]

\* The afterLeafRemoved callback of the test suite, called once for each node
\* of the set nodes: cnt--.  seen keeps what the calls could observe.
afterLeafRemoved(t, nodes) ==
  IF nodes = {} THEN t
  ELSE [t EXCEPT !.cnt = @ - Cardinality(nodes),
                 !.removedArgs = @ \cup nodes,
                 !.seen = @ \cup {[created |-> FALSE, args |-> nodes,
                                    view |-> View(t)]}]

\* The test suite's spliting stoppers.
ssf1(pw, ph, n) == (pw <= 2 /\ ph <= 2) \/ n <= 1
ssf2(pw, ph, n) == (n = 0) \/ (pw * ph = n)

\* ssf(w, h, n), for the stopper the tree was constructed with.
ssfCall(pw, ph, n) ==
  CASE ssf = "ssf1" -> ssf1(pw, ph, n)
    [] ssf = "ssf2" -> ssf2(pw, ph, n)
    [] OTHER -> FALSE

\* Quadtree::splitable
splitable(x1, y1, x2, y2, n) ==
  IF x1 = x2 /\ y1 = y2 THEN FALSE
  ELSE IF ssf # "nullptr" /\ ssfCall(y2 - y1 + 1, x2 - x1 + 1, n) THEN FALSE
  ELSE TRUE

\* Quadtree::parentOf
parentOf(t, node) ==
  IF node = NULL \/ node = t.root \/ t.heap[node].d = 0 THEN NULL
  ELSE LET n == t.heap[node]
           id == pack(n.d - 1, n.x1, n.y1, w, h)
       IN IF id \in DOMAIN t.m THEN t.m[id] ELSE OutOfRange

\* numDepthTable[d] as the build reads it.  The array has maxDepth entries
\* (l.243) and the members numObjects (l.245) and numLeafNodes (l.247) lie
\* right behind it: index maxDepth is the word of numObjects and index
\* maxDepth + 1 the word of numLeafNodes.
tableAt(t, d) ==
  IF d \in DOMAIN t.numDepthTable THEN t.numDepthTable[d]
  ELSE IF d = maxDepth THEN t.numObjects
  ELSE t.numLeafNodes

\* numDepthTable[d] += by, as the build writes it: past the end of the array
\* the word written is numObjects or numLeafNodes.
tableAdd(t, d, by) ==
  IF d \in DOMAIN t.numDepthTable
    THEN [t EXCEPT !.numDepthTable[d] = @ + by]
  ELSE IF d = maxDepth THEN [t EXCEPT !.numObjects = @ + by]
  ELSE [t EXCEPT !.numLeafNodes = @ + by]

\* Quadtree::createNode
createNode(t, isLeaf, d, x1, y1, x2, y2) ==
  LET id == pack(d, x1, y1, w, h)
      node == <<d, x1, y1, x2, y2>>
  IN [t |-> tableAdd(
              [t EXCEPT
                 !.heap = MapPut(@, node, Node(isLeaf, d, x1, y1, x2, y2)),
                 !.m = IF id \in DOMAIN @ THEN @ ELSE MapPut(@, id, node),
                 !.numLeafNodes = IF isLeaf THEN @ + 1 ELSE @,
                 !.maxd = Max(@, d)],
              d, 1),
      node |-> node]

RECURSIVE walkDown(_, _)
\* while (numDepthTable[maxd] == 0) --maxd;
walkDown(t, d) ==
  IF d \in 0..(maxDepth + 1) /\ tableAt(t, d) = 0
    THEN walkDown(t, (d - 1) % UINT8)
  ELSE d

\* Quadtree::removeLeafNode
removeLeafNode(t, node) ==
  IF ~t.heap[node].isLeaf THEN t
  ELSE LET n == t.heap[node]
           id == pack(n.d, n.x1, n.y1, w, h)
           t1 == tableAdd([t EXCEPT !.m = MapDel(@, id)], n.d, 0 - 1)
       IN [t1 EXCEPT
             !.maxd = IF n.d = @ THEN walkDown(t1, @) ELSE @,
             !.heap = MapDel(@, node),
             !.numLeafNodes = @ - 1]

RECURSIVE splitHelper1(_, _, _, _, _, _, _, _), splitHelper2(_, _, _)

\* Quadtree::splitHelper1.  up is the node whose objects container is the
\* upstreamObjects reference; the result carries the tree, the node created
\* (or NULL) and the created leaf nodes collected so far.
splitHelper1(t, d, x1, y1, x2, y2, up, createdLeafNodes) ==
  IF ~(x1 >= 0 /\ x1 < h /\ y1 >= 0 /\ y1 < w)
    THEN [t |-> t, node |-> NULL, created |-> createdLeafNodes]
  ELSE IF ~(x2 >= 0 /\ x2 < h /\ y2 >= 0 /\ y2 < w)
    THEN [t |-> t, node |-> NULL, created |-> createdLeafNodes]
  ELSE IF ~(x1 <= x2 /\ y1 <= y2)
    THEN [t |-> t, node |-> NULL, created |-> createdLeafNodes]
  ELSE
    LET objs == {k \in t.heap[up].objects :
                   k[1] >= x1 /\ k[1] <= x2 /\ k[2] >= y1 /\ k[2] <= y2}
        t1 == [t EXCEPT !.heap[up].objects = @ \ objs]
        \* the new node takes the objects; a leaf is recorded as created
        leaf(c) ==
          [t |-> [c.t EXCEPT !.heap[c.node].objects = objs],
           node |-> c.node,
           created |-> createdLeafNodes \cup {c.node}]
        \* a non-leaf node goes on to split
        inner(c) ==
          LET done(r) == [t |-> r.t, node |-> c.node, created |-> r.created]
          IN done(splitHelper2([c.t EXCEPT !.heap[c.node].objects = objs],
                               c.node, createdLeafNodes))
    IN IF ~splitable(x1, y1, x2, y2, Cardinality(objs))
         THEN leaf(createNode(t1, TRUE, d, x1, y1, x2, y2))
         ELSE inner(createNode(t1, FALSE, d, x1, y1, x2, y2))

\* splitHelper2 with the links of the second and third quadrant exchanged.
splitHelper2SwapsQuadrants(t, node, createdLeafNodes) ==
  LET n == t.heap[node]
      d == (n.d + 1) % UINT8
      x3 == n.x1 + (n.x2 - n.x1) \div 2
      y3 == n.y1 + (n.y2 - n.y1) \div 2
      assign(r, i) ==
        [t |-> [r.t EXCEPT !.heap[node].children[i] = r.node],
         created |-> r.created]
      call(s, a1, b1, a2, b2) ==
        splitHelper1(s.t, d, a1, b1, a2, b2, node, s.created)
      s0 == [t |-> t, created |-> createdLeafNodes]
      s1 == assign(call(s0, n.x1, n.y1, x3, y3), 1)
      s2 == assign(call(s1, n.x1, y3 + 1, x3, n.y2), 3)
      s3 == assign(call(s2, x3 + 1, n.y1, n.x2, y3), 2)
      s4 == assign(call(s3, x3 + 1, y3 + 1, n.x2, n.y2), 4)
      calls == <<s1, s2, s3, s4>>
      finish(s) ==
        [t |-> IF s.t.heap[node].isLeaf
                 THEN [s.t EXCEPT !.numLeafNodes = @ - 1,
                                  !.heap[node].isLeaf = FALSE]
                 ELSE s.t,
         created |-> s.created]
  IN finish(calls[4])

\* Quadtree::splitHelper2.  The four splitHelper1 calls are made in the
\* order of the source, each on the tree the previous one left, and
\* children[i] (1..4 here) is assigned after call i; calls lists them in
\* that order.
splitHelper2(t, node, createdLeafNodes) ==
  LET n == t.heap[node]
      x1 == n.x1
      y1 == n.y1
      x2 == n.x2
      y2 == n.y2
      d == (n.d + 1) % UINT8
      x3 == x1 + (x2 - x1) \div 2
      y3 == y1 + (y2 - y1) \div 2
      \* node->children[i] = <node returned by the call r>
      assign(r, i) ==
        [t |-> [r.t EXCEPT !.heap[node].children[i] = r.node],
         created |-> r.created]
      \* the next splitHelper1 call, after the assignment s
      call(s, a1, b1, a2, b2) ==
        splitHelper1(s.t, d, a1, b1, a2, b2, node, s.created)
      s0 == [t |-> t, created |-> createdLeafNodes]
      s1 == assign(call(s0, x1, y1, x3, y3), 1)
      s2 == assign(call(s1, x1, y3 + 1, x3, y2), 2)
      s3 == assign(call(s2, x3 + 1, y1, x2, y3), 3)
      s4 == assign(call(s3, x3 + 1, y3 + 1, x2, y2), 4)
      calls == <<s1, s2, s3, s4>>
      \* if (node->isLeaf) { --numLeafNodes; node->isLeaf = false; }
      finish(s) ==
        [t |-> IF s.t.heap[node].isLeaf
                 THEN [s.t EXCEPT !.numLeafNodes = @ - 1,
                                  !.heap[node].isLeaf = FALSE]
                 ELSE s.t,
         created |-> s.created]
  IN finish(calls[4])

\* trySplitDown with the two callbacks called on the leaf before it is split.
trySplitDownHooksFirst(t, node) ==
  LET n == t.heap[node]
      done(r) ==
        LET hooked == afterLeafCreated(afterLeafRemoved(t, {node}), r.created)
        IN [t |-> [r.t EXCEPT !.cnt = hooked.cnt,
                              !.createdArgs = hooked.createdArgs,
                              !.removedArgs = hooked.removedArgs,
                              !.seen = hooked.seen],
            ok |-> TRUE,
            removedHook |-> {node}, createdHook |-> r.created]
  IN IF n.isLeaf /\ splitable(n.x1, n.y1, n.x2, n.y2, Cardinality(n.objects))
       THEN done(splitHelper2(t, node, {}))
       ELSE [t |-> t, ok |-> FALSE, removedHook |-> {}, createdHook |-> {}]

\* Quadtree::trySplitDown.  removedHook and createdHook are the arguments of
\* the afterLeafRemoved and afterLeafCreated calls it makes.
trySplitDown(t, node) ==
  LET n == t.heap[node]
      done(r) == [t |-> afterLeafCreated(afterLeafRemoved(r.t, {node}),
                                         r.created),
                  ok |-> TRUE,
                  removedHook |-> {node}, createdHook |-> r.created]
  IN IF n.isLeaf /\ splitable(n.x1, n.y1, n.x2, n.y2, Cardinality(n.objects))
       THEN done(splitHelper2(t, node, {}))
       ELSE [t |-> t, ok |-> FALSE, removedHook |-> {}, createdHook |-> {}]

\* The non-null children of a node.
Children(t, node) ==
  {t.heap[node].children[i] : i \in 1..4} \ {NULL}

\* Quadtree::mergeable.  parent is the value left in the passed-in pointer;
\* threw tells that parentOf threw.
mergeable(t, node) ==
  LET with(parent) ==
        IF parent = OutOfRange
          THEN [ok |-> FALSE, parent |-> NULL, threw |-> TRUE]
        ELSE IF parent = NULL
          THEN [ok |-> FALSE, parent |-> NULL, threw |-> FALSE]
        ELSE IF \E c \in Children(t, parent) : ~t.heap[c].isLeaf
          THEN [ok |-> FALSE, parent |-> parent, threw |-> FALSE]
        ELSE
          LET p == t.heap[parent]
              sizes == [c \in Children(t, parent) |->
                          Cardinality(t.heap[c].objects)]
              n == SumOver(sizes, Children(t, parent))
          IN [ok |-> ~splitable(p.x1, p.y1, p.x2, p.y2, n),
              parent |-> parent, threw |-> FALSE]
  IN IF node = t.root THEN [ok |-> FALSE, parent |-> NULL, threw |-> FALSE]
     ELSE IF ~t.heap[node].isLeaf
       THEN [ok |-> FALSE, parent |-> NULL, threw |-> FALSE]
     ELSE with(parentOf(t, node))

RECURSIVE mergeChildren(_, _, _, _)
\* The loop of mergeHelper over parent->children[i], i = 1..4 here.
mergeChildren(t, parent, i, removedLeafNodes) ==
  IF i > 4 THEN [t |-> t, removed |-> removedLeafNodes]
  ELSE
    LET child == t.heap[parent].children[i]
    IN IF child = NULL
         THEN mergeChildren(t, parent, i + 1, removedLeafNodes)
         ELSE
           LET t1 == [t EXCEPT !.heap[parent].objects =
                                  @ \cup t.heap[child].objects]
               t2 == removeLeafNode(t1, child)
               t3 == [t2 EXCEPT !.heap[parent].children[i] = NULL]
           IN mergeChildren(t3, parent, i + 1,
                            removedLeafNodes \cup {child})

RECURSIVE mergeHelper(_, _, _)

\* mergeHelper without turning the parent into a leaf.
mergeHelperKeepsNonLeaf(t, node, removedLeafNodes) ==
  LET up(parent, r) ==
        LET done(rr) ==
              [t |-> rr.t, rt |-> rr.rt, removed |-> rr.removed \ {parent}]
        IN done(mergeHelper([r.t EXCEPT !.numLeafNodes = @ + 1],
                            parent, r.removed))
      with(mg) ==
        IF mg.threw
          THEN [t |-> [t EXCEPT !.threw = TRUE], rt |-> node,
                removed |-> removedLeafNodes]
        ELSE IF ~mg.ok
          THEN [t |-> t, rt |-> node, removed |-> removedLeafNodes]
        ELSE up(mg.parent, mergeChildren(t, mg.parent, 1, removedLeafNodes))
  IN with(mergeable(t, node))

\* Quadtree::mergeHelper
mergeHelper(t, node, removedLeafNodes) ==
  LET \* the recursive call on the parent, and parent leaving the removed set
      up(parent, r) ==
        LET done(rr) ==
              [t |-> rr.t, rt |-> rr.rt, removed |-> rr.removed \ {parent}]
        IN done(mergeHelper([r.t EXCEPT !.heap[parent].isLeaf = TRUE,
                                        !.numLeafNodes = @ + 1],
                            parent, r.removed))
      with(mg) ==
        IF mg.threw
          THEN [t |-> [t EXCEPT !.threw = TRUE], rt |-> node,
                removed |-> removedLeafNodes]
        ELSE IF ~mg.ok
          THEN [t |-> t, rt |-> node, removed |-> removedLeafNodes]
        ELSE up(mg.parent, mergeChildren(t, mg.parent, 1, removedLeafNodes))
  IN with(mergeable(t, node))

\* Quadtree::tryMergeUp
tryMergeUp(t, node) ==
  LET done(r) ==
        IF r.t.threw
          THEN [t |-> r.t, ok |-> FALSE,
                removedHook |-> {}, createdHook |-> {}]
        ELSE IF r.rt # node
          THEN [t |-> afterLeafCreated(afterLeafRemoved(r.t, r.removed),
                                       {r.rt}),
                ok |-> TRUE,
                removedHook |-> r.removed, createdHook |-> {r.rt}]
        ELSE [t |-> r.t, ok |-> FALSE, removedHook |-> {}, createdHook |-> {}]
  IN done(mergeHelper(t, node, {}))

RECURSIVE FindLoop(_, _, _, _, _)
\* The binary search of Quadtree::Find over the depth range l..r.
FindLoop(t, x, y, l, r) ==
  IF l > r THEN NULL
  ELSE LET d == (l + r) \div 2
           id == pack(d, x, y, w, h)
       IN IF id \notin DOMAIN t.m THEN FindLoop(t, x, y, l, d - 1)
          ELSE LET node == t.m[id]
               IN IF t.heap[node].isLeaf THEN node
                  ELSE FindLoop(t, x, y, d + 1, r)

\* Quadtree::Find
Find(t, x, y) == FindLoop(t, x, y, 0, t.maxd)

\* Add with the two attempts in the order of Remove: merge-up first.
AddMergesFirst(t, x, y, o) ==
  LET either(g, node) ==
        IF g.ok \/ g.t.threw THEN g.t ELSE trySplitDown(g.t, node).t
      at(node) ==
        IF node = NULL THEN t
        ELSE IF <<x, y, o>> \in t.heap[node].objects THEN t
        ELSE either(tryMergeUp(
                      [t EXCEPT !.heap[node].objects = @ \cup {<<x, y, o>>},
                                !.numObjects = @ + 1],
                      node),
                    node)
  IN IF ~(x >= 0 /\ x < h /\ y >= 0 /\ y < w) THEN t
     ELSE at(Find(t, x, y))

\* Quadtree::Add
Add(t, x, y, o) ==
  LET \* trySplitDown(node) || tryMergeUp(node)
      either(s, node) == IF s.ok THEN s.t ELSE tryMergeUp(s.t, node).t
      at(node) ==
        IF node = NULL THEN t
        ELSE IF <<x, y, o>> \in t.heap[node].objects THEN t
        ELSE either(trySplitDown(
                      [t EXCEPT !.heap[node].objects = @ \cup {<<x, y, o>>},
                                !.numObjects = @ + 1],
                      node),
                    node)
  IN IF ~(x >= 0 /\ x < h /\ y >= 0 /\ y < w) THEN t
     ELSE at(Find(t, x, y))

\* Remove without the test of what objects.erase returns.
RemoveUnchecked(t, x, y, o) ==
  LET either(g, node) ==
        IF g.ok \/ g.t.threw THEN g.t ELSE trySplitDown(g.t, node).t
      at(node) ==
        IF node = NULL THEN t
        ELSE either(tryMergeUp(
                      [t EXCEPT !.heap[node].objects = @ \ {<<x, y, o>>},
                                !.numObjects = @ - 1],
                      node),
                    node)
  IN IF ~(x >= 0 /\ x < h /\ y >= 0 /\ y < w) THEN t
     ELSE at(Find(t, x, y))

\* Quadtree::Remove
Remove(t, x, y, o) ==
  LET \* tryMergeUp(node) || trySplitDown(node)
      either(g, node) ==
        IF g.ok \/ g.t.threw THEN g.t ELSE trySplitDown(g.t, node).t
      at(node) ==
        IF node = NULL THEN t
        ELSE IF <<x, y, o>> \notin t.heap[node].objects THEN t
        ELSE either(tryMergeUp(
                      [t EXCEPT !.heap[node].objects = @ \ {<<x, y, o>>},
                                !.numObjects = @ - 1],
                      node),
                    node)
  IN IF ~(x >= 0 /\ x < h /\ y >= 0 /\ y < w) THEN t
     ELSE at(Find(t, x, y))

\* Quadtree::Build
Build(t) ==
  LET \* if (!trySplitDown(root)) afterLeafCreated(root)
      hook(s) == IF s.ok THEN s.t ELSE afterLeafCreated(s.t, {s.t.root})
      split(c) == hook(trySplitDown([c.t EXCEPT !.root = c.node], c.node))
  IN split(createNode(t, TRUE, 0, 0, 0, h - 1, w - 1))

\* ------------------------------------------------------------------------
\* Queries.
\* ------------------------------------------------------------------------

\* Quadtree::NumNodes, NumLeafNodes, Depth, NumObjects
NumNodes(t) == Cardinality(DOMAIN t.m)
NumLeafNodes(t) == t.numLeafNodes
Depth(t) == t.maxd
NumObjects(t) == t.numObjects

\* Quadtree::ForEachNode: the nodes passed to the visitor, one call per
\* entry of m, as a bag.
ForEachNode(t) ==
  LET Entries(node) == {id \in DOMAIN t.m : t.m[id] = node}
  IN [node \in {t.m[id] : id \in DOMAIN t.m} |-> Cardinality(Entries(node))]

\* isOverlap
isOverlap(ax1, ay1, ax2, ay2, bx1, by1, bx2, by2) ==
  ax1 <= bx2 /\ ax2 >= bx1 /\ ay1 <= by2 /\ ay2 >= by1

RECURSIVE queryRange(_, _, _, _, _, _)
\* Quadtree::queryRange: the collector calls, as a bag of triples.
queryRange(t, node, x1, y1, x2, y2) ==
  IF node = NULL THEN EmptyBag
  ELSE
    LET n == t.heap[node]
    IN IF ~isOverlap(n.x1, n.y1, n.x2, n.y2, x1, y1, x2, y2) THEN EmptyBag
       ELSE IF ~n.isLeaf
         THEN queryRange(t, n.children[1], x1, y1, x2, y2)
              (+) queryRange(t, n.children[2], x1, y1, x2, y2)
              (+) queryRange(t, n.children[3], x1, y1, x2, y2)
              (+) queryRange(t, n.children[4], x1, y1, x2, y2)
       ELSE SetToBag({k \in n.objects :
                        k[1] >= x1 /\ k[1] <= x2 /\ k[2] >= y1 /\ k[2] <= y2})

RECURSIVE coveringLoop(_, _, _, _, _, _, _, _)
\* The binary search of findSmallestNodeCoveringRange; node is the best
\* answer so far.
coveringLoop(t, x1, y1, x2, y2, l, r, node) ==
  IF ~(l < r) THEN node
  ELSE LET d == (l + r + 1) \div 2
           id1 == pack(d, x1, y1, w, h)
           id2 == pack(d, x2, y2, w, h)
       IN IF id1 = id2 /\ id1 \in DOMAIN t.m
            THEN coveringLoop(t, x1, y1, x2, y2, d, r, t.m[id1])
            ELSE coveringLoop(t, x1, y1, x2, y2, l, d - 1, node)

\* Quadtree::findSmallestNodeCoveringRange
findSmallestNodeCoveringRange(t, x1, y1, x2, y2, dma) ==
  IF ~(x1 >= 0 /\ x1 < h /\ y1 >= 0 /\ y1 < w) THEN NULL
  ELSE IF ~(x2 >= 0 /\ x2 < h /\ y2 >= 0 /\ y2 < w) THEN NULL
  ELSE coveringLoop(t, x1, y1, x2, y2, 0, dma, t.root)

\* Quadtree::FindSmallestNodeCoveringRange
FindSmallestNodeCoveringRange(t, x1, y1, x2, y2) ==
  findSmallestNodeCoveringRange(t, x1, y1, x2, y2, t.maxd)

\* Quadtree::QueryRange: the collector calls, as a bag of triples.
QueryRange(t, x1, y1, x2, y2) ==
  IF ~(x1 <= x2 /\ y1 <= y2) THEN EmptyBag
  ELSE LET found == FindSmallestNodeCoveringRange(t, x1, y1, x2, y2)
           node == IF found = NULL THEN t.root ELSE found
       IN queryRange(t, node, x1, y1, x2, y2)

\* Quadtree::getNeighbourPositionDiagonal: <<px, py>>
getNeighbourPositionDiagonal(t, node, direction) ==
  LET n == t.heap[node]
  IN CASE direction = 4 -> <<n.x1 - 1, n.y1 - 1>>
       [] direction = 5 -> <<n.x1 - 1, n.y2 + 1>>
       [] direction = 6 -> <<n.x2 + 1, n.y2 + 1>>
       [] direction = 7 -> <<n.x2 + 1, n.y1 - 1>>
       [] OTHER -> <<0 - 1, 0 - 1>>

\* Quadtree::findNeighbourLeafNodesDiagonal: the visitor calls, in order.
findNeighbourLeafNodesDiagonal(t, node, direction) ==
  LET p == getNeighbourPositionDiagonal(t, node, direction)
      neighbour == Find(t, p[1], p[2])
  IN IF neighbour # NULL THEN <<neighbour>> ELSE <<>>

\* Quadtree::getNeighbourPositionsHV: <<px1, py1, px2, py2>>
getNeighbourPositionsHV(t, node, direction) ==
  LET n == t.heap[node]
  IN CASE direction = 0 -> <<n.x1 - 1, n.y1, n.x1 - 1, n.y2>>
       [] direction = 1 -> <<n.x1, n.y2 + 1, n.x2, n.y2 + 1>>
       [] direction = 2 -> <<n.x2 + 1, n.y1, n.x2 + 1, n.y2>>
       [] direction = 3 -> <<n.x1, n.y1 - 1, n.x2, n.y1 - 1>>
       [] OTHER -> <<0 - 1, 0 - 1, 0 - 1, 0 - 1>>

\* GET_LEAF_NODES_AT_DIRECTION_JUMP_TABLE[flag][direction], both from 0 in
\* the source and from 1 here.
GET_LEAF_NODES_AT_DIRECTION_JUMP_TABLE ==
  << << <<-1, -1>>, <<-1, -1>>, <<-1, -1>>, <<-1, -1>> >>,
     << << 0,  0>>, << 0,  0>>, << 0,  0>>, << 0,  0>> >>,
     << <<-1, -1>>, <<-1, -1>>, <<-1, -1>>, <<-1, -1>> >>,
     << << 0,  1>>, <<-1,  1>>, << 0,  1>>, << 0, -1>> >>,
     << <<-1, -1>>, <<-1, -1>>, <<-1, -1>>, <<-1, -1>> >>,
     << << 0, -1>>, << 0,  2>>, << 2,  0>>, << 0,  2>> >>,
     << <<-1, -1>>, <<-1, -1>>, <<-1, -1>>, <<-1, -1>> >>,
     << << 0,  1>>, << 1,  3>>, << 2,  3>>, << 0,  2>> >> >>

\* The layout flag getLeafNodesAtDirection computes for a non-leaf node.
childrenFlag(n) ==
  (IF n.children[1] # NULL THEN 1 ELSE 0)
  + (IF n.children[2] # NULL THEN 2 ELSE 0)
  + (IF n.children[3] # NULL THEN 4 ELSE 0)

\* The child indices (from 0) getLeafNodesAtDirection recurses into from the
\* non-leaf node record n: the entries of its table row that are not -1.
descentChildren(n, direction) ==
  LET e == GET_LEAF_NODES_AT_DIRECTION_JUMP_TABLE
             [childrenFlag(n) + 1][direction + 1]
  IN {e[i] : i \in 1..2} \ {0 - 1}

RECURSIVE getLeafNodesAtDirection(_, _, _)
\* Quadtree::getLeafNodesAtDirection: the visitor calls, in order.  A null
\* child reached through the table is dereferenced by the source; no tree
\* built by Build/Add/Remove has one, and it yields no call here.
getLeafNodesAtDirection(t, node, direction) ==
  IF node = NULL THEN <<>>
  ELSE
    LET n == t.heap[node]
    IN IF n.isLeaf THEN <<node>>
       ELSE
         LET e == GET_LEAF_NODES_AT_DIRECTION_JUMP_TABLE
                    [childrenFlag(n) + 1][direction + 1]
         IN (IF e[1] # -1
               THEN getLeafNodesAtDirection(t, n.children[e[1] + 1], direction)
               ELSE <<>>)
            \o (IF e[2] # -1
                  THEN getLeafNodesAtDirection(t, n.children[e[2] + 1],
                                               direction)
                  ELSE <<>>)

\* direction ^ 2 for direction in 0..7
Xor2(direction) ==
  IF (direction \div 2) % 2 = 0 THEN direction + 2 ELSE direction - 2

\* Quadtree::findNeighbourLeafNodesHV: the visitor calls, in order.
findNeighbourLeafNodesHV(t, node, direction) ==
  LET q == getNeighbourPositionsHV(t, node, direction)
      p == findSmallestNodeCoveringRange(t, q[1], q[2], q[3], q[4],
                                         t.heap[node].d)
  IN IF p = NULL THEN <<>>
     ELSE getLeafNodesAtDirection(t, p, Xor2(direction))

\* Quadtree::FindNeighbourLeafNodes: the visitor calls, in order.
FindNeighbourLeafNodes(t, node, direction) ==
  IF direction >= 4 THEN findNeighbourLeafNodesDiagonal(t, node, direction)
  ELSE findNeighbourLeafNodesHV(t, node, direction)

\* ------------------------------------------------------------------------
\* The state machine: one action per mutating public call.
\* ------------------------------------------------------------------------

Install(t) ==
  /\ root' = t.root
  /\ heap' = t.heap
  /\ m' = t.m
  /\ maxd' = t.maxd
  /\ numDepthTable' = t.numDepthTable
  /\ numObjects' = t.numObjects
  /\ numLeafNodes' = t.numLeafNodes
  /\ threw' = t.threw
  /\ cnt' = t.cnt

\* Position (x, y) is a cell of the region.
InRegion(x, y) == x >= 0 /\ x < h /\ y >= 0 /\ y < w

\* How far numLeafNodes is above the number of live leaf nodes.
LeafDrift ==
  numLeafNodes - Cardinality({node \in DOMAIN heap : heap[node].isLeaf})

\* The state after Quadtree(w, h, ssf) for a region of R, in a build whose
\* MAX_DEPTH is D.
InitWith(R, D) ==
  /\ \E reg \in R : w = reg[1] /\ h = reg[2]
  /\ maxDepth = D
  /\ ssf \in Predicates
  /\ root = Quadtree.root
  /\ heap = Quadtree.heap
  /\ m = Quadtree.m
  /\ maxd = Quadtree.maxd
  /\ numDepthTable = Quadtree.numDepthTable
  /\ numObjects = Quadtree.numObjects
  /\ numLeafNodes = Quadtree.numLeafNodes
  /\ threw = Quadtree.threw
  /\ cnt = Quadtree.cnt
  /\ added = {}


\* The state after Quadtree(w, h, ssf) for a region of R.
InitOver(R) == InitWith(R, MAX_DEPTH)

Init == InitOver(Regions)

InitWide == InitOver(WideRegions)

\* The build with MAX_DEPTH scaled down, on regions of sides up to
\* 2^ScaledMaxDepth - 1, the MAX_SIDE of that build.
InitDeep == InitWith(DeepRegions, ScaledMaxDepth)

\* A region of two rows, for the diagonal neighbours, with the predicate that
\* splits down to single cells.
InitTall == InitOver(TallRegions) /\ ssf = "nullptr"

\* tree.Build(), called once on the empty tree.
DoBuild ==
  /\ root = NULL
  /\ ~threw
  /\ Install(Build(Self))
  /\ UNCHANGED <<w, h, maxDepth, ssf, added>>

\* tree.Add(x, y, o), positions one step outside the region included.
DoAdd ==
  /\ root # NULL
  /\ ~threw
  /\ numObjects < MaxObjects
  /\ Cardinality(added) < MaxObjects
  /\ LeafDrift < MaxLeafDrift
  /\ \E x \in (0 - 1)..h, y \in (0 - 1)..w, o \in 1..MaxPayload :
       /\ Install(Add(Self, x, y, o))
       /\ added' = IF InRegion(x, y) THEN added \cup {<<x, y, o>>} ELSE added
  /\ UNCHANGED <<w, h, maxDepth, ssf>>

\* tree.Remove(x, y, o), positions one step outside the region included.
DoRemove ==
  /\ root # NULL
  /\ ~threw
  /\ LeafDrift < MaxLeafDrift
  /\ \E x \in (0 - 1)..h, y \in (0 - 1)..w, o \in 1..MaxPayload :
       /\ Install(Remove(Self, x, y, o))
       /\ added' = added \ {<<x, y, o>>}
  /\ UNCHANGED <<w, h, maxDepth, ssf>>

Next == DoBuild \/ DoAdd \/ DoRemove

Spec == Init /\ [][Next]_vars

SpecWide == InitWide /\ [][Next]_vars

SpecTall == InitTall /\ [][Next]_vars

SpecDeep == InitDeep /\ [][Next]_vars

\* ------------------------------------------------------------------------
\* Vocabulary of the properties.
\* ------------------------------------------------------------------------

RECURSIVE Reach(_, _)
\* The nodes reachable from node through child links, node included.
Reach(t, node) ==
  {node} \cup UNION {Reach(t, c) : c \in Children(t, node)}

\* The nodes reachable from the root.
TreeNodes(t) == IF t.root = NULL THEN {} ELSE Reach(t, t.root)

\* The reachable leaf nodes.
Leaves(t) == {node \in TreeNodes(t) : t.heap[node].isLeaf}

\* Position (x, y) lies inside the rectangle of the node record n.
Contains(n, x, y) == n.x1 <= x /\ x <= n.x2 /\ n.y1 <= y /\ y <= n.y2

\* The triples held by the reachable leaves.
Stored(t) == UNION {t.heap[node].objects : node \in Leaves(t)}

\* The number of triples held by the leaves of the subtree of node.
SubtreeObjects(t, node) ==
  LET L == {l \in Reach(t, node) : t.heap[l].isLeaf}
  IN SumOver([l \in L |-> Cardinality(t.heap[l].objects)], L)

\* The elements of a sequence.
Range(seq) == {seq[i] : i \in DOMAIN seq}

\* The rectangle of mm touches the edge of n on side dir (0:N 1:E 2:S 3:W):
\* it ends in the row or column just outside that edge and overlaps the
\* extent of n along it.
Adjacent(n, mm, dir) ==
  CASE dir = 0 -> mm.x2 = n.x1 - 1 /\ mm.y1 <= n.y2 /\ mm.y2 >= n.y1
    [] dir = 1 -> mm.y1 = n.y2 + 1 /\ mm.x1 <= n.x2 /\ mm.x2 >= n.x1
    [] dir = 2 -> mm.x1 = n.x2 + 1 /\ mm.y1 <= n.y2 /\ mm.y2 >= n.y1
    [] dir = 3 -> mm.y2 = n.y1 - 1 /\ mm.x1 <= n.x2 /\ mm.x2 >= n.x1
    [] OTHER -> FALSE

\* The four counters a caller can read.
Counters(t) == <<NumNodes(t), NumLeafNodes(t), Depth(t), NumObjects(t)>>

\* Build has run and no call was left by an exception.
Built == root # NULL /\ ~threw

\* ------------------------------------------------------------------------
\* Properties.
\* ------------------------------------------------------------------------

\* C1: after Build and any Add/Remove, Find(x, y) of every in-range position
\* returns a live leaf whose rectangle contains (x, y).
C1_FindReturnsContainingLeaf ==
  Built =>
    \A x \in 0..(h - 1), y \in 0..(w - 1) :
      LET node == Find(Self, x, y)
      IN /\ node # NULL
         /\ node \in Leaves(Self)
         /\ Contains(heap[node], x, y)

\* C2: for every live node N and every position (x, y) inside its rectangle,
\* pack(N.d, x, y, W, H) equals pack(N.d, N.x1, N.y1, W, H), the key N is
\* stored under.
C2_PackConstantInsideNode ==
  Built =>
    \A node \in TreeNodes(Self) :
      LET n == heap[node]
      IN \A x \in n.x1..n.x2, y \in n.y1..n.y2 :
           pack(n.d, x, y, w, h) = pack(n.d, n.x1, n.y1, w, h)

\* C3: every triple held by a leaf has its position inside the rectangle of
\* that leaf.
C3_ObjectsInsideLeaf ==
  Built =>
    \A node \in Leaves(Self) :
      \A k \in heap[node].objects : Contains(heap[node], k[1], k[2])

\* C4: every non-leaf node is splitable for its rectangle and the number of
\* triples stored in the leaves of its subtree.
C4_NonLeafSplitable ==
  Built =>
    \A node \in TreeNodes(Self) \ Leaves(Self) :
      LET n == heap[node]
      IN splitable(n.x1, n.y1, n.x2, n.y2, SubtreeObjects(Self, node))

\* C5: every leaf is a single cell or is not splitable for its rectangle and
\* the number of triples it holds.
C5_LeafNotSplitable ==
  Built =>
    \A node \in Leaves(Self) :
      LET n == heap[node]
      IN \/ (n.x1 = n.x2 /\ n.y1 = n.y2)
         \/ ~splitable(n.x1, n.y1, n.x2, n.y2, Cardinality(n.objects))

\* C6: Add of an in-range triple that is not stored, followed by Remove of
\* the same triple, restores NumNodes, NumLeafNodes, Depth and NumObjects.
C6_AddRemoveRestoresCounters ==
  Built =>
    \A x \in 0..(h - 1), y \in 0..(w - 1), o \in 1..MaxPayload :
      <<x, y, o>> \notin Stored(Self) =>
        Counters(Remove(Add(Self, x, y, o), x, y, o)) = Counters(Self)

\* C7: the id -> node store and the tree are in lockstep: every node
\* reachable from the root is stored under pack(d, x1, y1, W, H), the store
\* has no other entries, distinct live nodes have distinct ids, NumNodes is
\* the number of reachable nodes and ForEachNode visits each of them once.
C7_StoreTreeLockstep ==
  Built =>
    /\ \A node \in TreeNodes(Self) :
         LET n == heap[node]
             id == pack(n.d, n.x1, n.y1, w, h)
         IN id \in DOMAIN m /\ m[id] = node
    /\ \A id \in DOMAIN m : m[id] \in TreeNodes(Self)
    /\ \A n1, n2 \in TreeNodes(Self) :
         n1 # n2 =>
           pack(heap[n1].d, heap[n1].x1, heap[n1].y1, w, h)
             # pack(heap[n2].d, heap[n2].x1, heap[n2].y1, w, h)
    /\ NumNodes(Self) = Cardinality(TreeNodes(Self))
    /\ ForEachNode(Self) = SetToBag(TreeNodes(Self))

\* C8: for every rectangle R with x1 <= x2 and y1 <= y2, also one reaching
\* outside the region, QueryRange(R) calls the collector exactly once for
\* each stored triple inside R and for no other triple.
C8_QueryRangeExact ==
  Built =>
    \A x1 \in (0 - 1)..h, y1 \in (0 - 1)..w :
      \A x2 \in x1..h, y2 \in y1..w :
        QueryRange(Self, x1, y1, x2, y2)
          = SetToBag({k \in Stored(Self) :
                        k[1] >= x1 /\ k[1] <= x2 /\ k[2] >= y1 /\ k[2] <= y2})

\* C9: for every leaf N and cardinal direction dir, the nodes passed to the
\* visitor by FindNeighbourLeafNodes(N, dir) are exactly the leaves whose
\* rectangle touches the edge of N on side dir.
C9_NeighboursExact ==
  Built =>
    \A node \in Leaves(Self), dir \in 0..3 :
      Range(FindNeighbourLeafNodes(Self, node, dir))
        = {mm \in Leaves(Self) : Adjacent(heap[node], heap[mm], dir)}

\* C10: if leaf M is reported by FindNeighbourLeafNodes(N, dir) for a leaf N
\* and a cardinal direction dir, then N is reported by
\* FindNeighbourLeafNodes(M, dir XOR 2).
C10_NeighbourSymmetry ==
  Built =>
    \A node \in Leaves(Self), dir \in 0..3 :
      \A mm \in Range(FindNeighbourLeafNodes(Self, node, dir)) :
        mm \in Leaves(Self) =>
          node \in Range(FindNeighbourLeafNodes(Self, mm, Xor2(dir)))

\* The reachable nodes whose rectangle contains both (x1, y1) and (x2, y2).
Covering(t, x1, y1, x2, y2) ==
  {node \in TreeNodes(t) :
     Contains(t.heap[node], x1, y1) /\ Contains(t.heap[node], x2, y2)}

\* C11: FindSmallestNodeCoveringRange(x1, y1, x2, y2) returns none if one of
\* the two corners is outside the region; otherwise it returns a live node
\* whose rectangle contains both corners, and no live node of greater depth
\* contains both.
C11_CoveringNodeDeepest ==
  Built =>
    \A x1 \in (0 - 1)..h, y1 \in (0 - 1)..w :
      \A x2 \in (0 - 1)..h, y2 \in (0 - 1)..w :
        LET node == FindSmallestNodeCoveringRange(Self, x1, y1, x2, y2)
        IN IF ~(InRegion(x1, y1) /\ InRegion(x2, y2)) THEN node = NULL
           ELSE /\ node \in Covering(Self, x1, y1, x2, y2)
                /\ \A c \in Covering(Self, x1, y1, x2, y2) :
                     heap[c].d <= heap[node].d

\* C12: NumObjects() is the sum of |objects| over all leaves, and is the
\* number of distinct triples added and not removed since.
C12_NumObjectsExact ==
  Built =>
    /\ NumObjects(Self) = SubtreeObjects(Self, root)
    /\ NumObjects(Self) = Cardinality(added)

\* C13: NumLeafNodes() is the number of nodes in the store whose isLeaf flag
\* is true.
C13_NumLeafNodesExact ==
  Built =>
    NumLeafNodes(Self)
      = Cardinality({id \in DOMAIN m : m[id] \in DOMAIN heap
                                        /\ heap[m[id]].isLeaf})

\* C14: Depth() is the maximum depth over the live nodes, and
\* numDepthTable[d] is the number of live nodes at depth d for every d.
C14_DepthTableExact ==
  Built =>
    /\ \A node \in TreeNodes(Self) : heap[node].d <= Depth(Self)
    /\ \E node \in TreeNodes(Self) : heap[node].d = Depth(Self)
    /\ \A d \in DOMAIN numDepthTable :
         numDepthTable[d]
           = Cardinality({node \in TreeNodes(Self) : heap[node].d = d})

\* C15: every non-leaf node has at least one non-null child and every leaf
\* node has all four child links null.
C15_ProperQuadtree ==
  Built =>
    \A node \in TreeNodes(Self) :
      IF heap[node].isLeaf THEN Children(Self, node) = {}
      ELSE Children(Self, node) # {}

\* Two Adds have split the root, left a leaf by Build: the root has a child,
\* and a leaf below it holds a triple.
C15_Witness ==
  /\ Built
  /\ ssf = "ssf1"
  /\ numObjects = 2
  /\ ~heap[root].isLeaf
  /\ Children(Self, root) # {}
  /\ \E node \in Leaves(Self) :
       heap[node].objects # {} /\ Children(Self, node) = {}

\* C16: after Build and every completed Add/Remove, the objects container of
\* every non-leaf node is empty.
C16_NonLeafHoldsNothing ==
  Built =>
    \A node \in TreeNodes(Self) \ Leaves(Self) : heap[node].objects = {}

\* The canonical rectangle <<x1, y1, x2, y2>> of child i (1..4) of the node
\* record n, by the midpoint split.
CanonicalRect(n, i) ==
  LET x3 == n.x1 + (n.x2 - n.x1) \div 2
      y3 == n.y1 + (n.y2 - n.y1) \div 2
  IN CASE i = 1 -> <<n.x1, n.y1, x3, y3>>
       [] i = 2 -> <<n.x1, y3 + 1, x3, n.y2>>
       [] i = 3 -> <<x3 + 1, n.y1, n.x2, y3>>
       [] i = 4 -> <<x3 + 1, y3 + 1, n.x2, n.y2>>

\* C17: child i of a non-leaf node is null exactly when its canonical
\* rectangle is empty; a non-null child has depth d + 1 and exactly its
\* canonical rectangle.
C17_CanonicalChildren ==
  Built =>
    \A node \in TreeNodes(Self) \ Leaves(Self) :
      \A i \in 1..4 :
        LET n == heap[node]
            c == n.children[i]
            rc == CanonicalRect(n, i)
        IN IF rc[1] > rc[3] \/ rc[2] > rc[4] THEN c = NULL
           ELSE /\ c # NULL
                /\ heap[c].d = n.d + 1
                /\ <<heap[c].x1, heap[c].y1, heap[c].x2, heap[c].y2>> = rc

\* An Add has split a node below the root that is one row or one column, so
\* that two of its quadrants are empty and two are not.
C17_Witness ==
  /\ Built
  /\ added # {}
  /\ \E node \in TreeNodes(Self) \ Leaves(Self) :
       /\ heap[node].d >= 1
       /\ Cardinality(Children(Self, node)) = 2
       /\ \E i \in 1..4 : heap[node].children[i] = NULL

\* C18: after Build and after every Add/Remove, the number of
\* afterLeafCreated calls minus the number of afterLeafRemoved calls, which
\* is the caller's counter, equals NumLeafNodes().
C18_HookBalance == Built => cnt = NumLeafNodes(Self)

\* C19: for a leaf N and a diagonal direction, FindNeighbourLeafNodes calls
\* the visitor exactly once, with the leaf containing the off-corner cell,
\* when that cell is inside the region, and not at all when it is outside.
C19_DiagonalNeighbour ==
  Built =>
    \A node \in Leaves(Self), dir \in 4..7 :
      LET p == getNeighbourPositionDiagonal(Self, node, dir)
          calls == FindNeighbourLeafNodes(Self, node, dir)
      IN IF InRegion(p[1], p[2])
           THEN /\ Len(calls) = 1
                /\ calls[1] \in Leaves(Self)
                /\ Contains(heap[calls[1]], p[1], p[2])
           ELSE calls = <<>>

\* C20: Add of a triple that is already stored changes nothing: the nodes,
\* their rectangles, leaf flags and objects, the store and the counters are
\* as before, and neither callback is called.
C20_DuplicateAddNoOp ==
  Built =>
    \A k \in Stored(Self) : Add(Self, k[1], k[2], k[3]) = Self

\* C21: Remove of an in-range triple that is not stored changes nothing: the
\* nodes with their rectangles, leaf flags and objects, the store and the
\* counters are as before, and neither callback is called.
C21_AbsentRemoveNoOp ==
  Built =>
    \A x \in 0..(h - 1), y \in 0..(w - 1), o \in 1..MaxPayload :
      <<x, y, o>> \notin Stored(Self) => Remove(Self, x, y, o) = Self

\* An Add has split the tree, and a leaf holds a triple of a cell whose
\* other payload is not stored: Remove of that one finds the leaf and
\* erases nothing.
C21_Witness ==
  /\ Built
  /\ Depth(Self) >= 1
  /\ \E node \in Leaves(Self) :
       \E k \in heap[node].objects :
         \E o \in 1..MaxPayload :
           /\ <<k[1], k[2], o>> \notin Stored(Self)
           /\ Find(Self, k[1], k[2]) = node
           /\ Remove(Self, k[1], k[2], o) = Self

\* The largest int.
IntMax == (FIELD29 - 1) * 4 + 3

\* The coordinates i + 2^29 * n for i in 0..n-1 that are ints: floor(c * 2^d
\* / n) is 2^(29+d) above the field of i, and the 29-bit mask of pack drops
\* the difference.
FarAlong(n) ==
  IF n > IntMax \div FIELD29 THEN {}
  ELSE {FIELD29 * n + i : i \in {j \in 0..(n - 1) : j <= IntMax - FIELD29 * n}}

\* Positions outside the region: those up to MaxOutside steps outside, and
\* those with one coordinate inside and the other 2^29 sides further on.
OutsidePositions ==
  {p \in ((0 - MaxOutside)..(h - 1 + MaxOutside))
           \X ((0 - MaxOutside)..(w - 1 + MaxOutside)) :
     ~InRegion(p[1], p[2])}
  \cup (FarAlong(h) \X (0..(w - 1)))
  \cup ((0..(h - 1)) \X FarAlong(w))

\* C22: for a position outside the region, Add and Remove leave the whole
\* tree state unchanged and Find returns none.
C22_OutOfRangeNoOp ==
  Built =>
    \A p \in OutsidePositions :
      /\ Find(Self, p[1], p[2]) = NULL
      /\ \A o \in 1..MaxPayload :
           /\ Add(Self, p[1], p[2], o) = Self
           /\ Remove(Self, p[1], p[2], o) = Self

\* The rectangle of the node record l reaches the edge of the node record n
\* on side dir (0:N 1:E 2:S 3:W).
OnEdge(n, l, dir) ==
  CASE dir = 0 -> l.x1 = n.x1
    [] dir = 1 -> l.y2 = n.y2
    [] dir = 2 -> l.x2 = n.x2
    [] dir = 3 -> l.y1 = n.y1
    [] OTHER -> FALSE

\* C23: from a non-leaf node with child-presence flag 011, 101 or 111 the
\* descent in direction dir recurses into exactly the children of the
\* decision table (011 -> N:{0,1} E:{1} S:{0,1} W:{0}; 101 -> N:{0} E:{0,2}
\* S:{2} W:{0,2}; 111 -> N:{0,1} E:{1,3} S:{2,3} W:{0,2}), and the leaves it
\* visits are the leaves below the node on its edge of side dir, each once.
C23_DescentTable ==
  Built =>
    \A node \in TreeNodes(Self) \ Leaves(Self), dir \in 0..3 :
      LET n == heap[node]
          f == childrenFlag(n)
          table == [g \in {3, 5, 7} |->
                      CASE g = 3 -> <<{0, 1}, {1}, {0, 1}, {0}>>
                        [] g = 5 -> <<{0}, {0, 2}, {2}, {0, 2}>>
                        [] g = 7 -> <<{0, 1}, {1, 3}, {2, 3}, {0, 2}>>]
          visited == getLeafNodesAtDirection(Self, node, dir)
      IN f \in {3, 5, 7} =>
           /\ descentChildren(n, dir) = table[f][dir + 1]
           /\ Range(visited)
                = {l \in Reach(Self, node) :
                     heap[l].isLeaf /\ OnEdge(n, heap[l], dir)}
           /\ Cardinality(Range(visited)) = Len(visited)

\* C24: for every live node N other than the root, parentOf(N) finds a node
\* in the store, and that node holds N in one of its four child links.
C24_ParentOfIsParent ==
  Built =>
    \A node \in TreeNodes(Self) \ {root} :
      LET parent == parentOf(Self, node)
      IN /\ parent # NULL
         /\ parent # OutOfRange
         /\ parent \in TreeNodes(Self)
         /\ node \in Children(Self, parent)

\* The smallest k with 2^k >= n, for n >= 1.
CeilLog2(n) == CHOOSE k \in 0..MAX_DEPTH : Pow2(k) >= n /\ (k = 0 \/ Pow2(k - 1) < n)

\* C28: the depth of every node created is an index of numDepthTable, which
\* has as many entries as MAX_DEPTH, and no depth goes past
\* ceil(log2(max(W, H))).
C28_DepthIndexValid ==
  root # NULL =>
    /\ \A node \in DOMAIN heap : heap[node].d \in DOMAIN numDepthTable
    /\ \A node \in DOMAIN heap : heap[node].d <= CeilLog2(Max(w, h))

\* No triple is held by two leaves.
OneLeafEach(t) ==
  \A l1, l2 \in Leaves(t) :
    l1 # l2 => t.heap[l1].objects \cap t.heap[l2].objects = {}

\* C25: an Add that inserts its triple into the leaf it finds adds exactly
\* that triple to the union of the leaves' object sets, a Remove that erases
\* its triple takes exactly that triple away, and afterwards every triple is
\* held by one leaf only.
C25_StoredChangesByOneTriple ==
  Built =>
    \A x \in 0..(h - 1), y \in 0..(w - 1), o \in 1..MaxPayload :
      LET node == Find(Self, x, y)
          k == <<x, y, o>>
          a == Add(Self, x, y, o)
          r == Remove(Self, x, y, o)
      IN node # NULL =>
           /\ k \notin heap[node].objects =>
                /\ k \notin Stored(Self)
                /\ Stored(a) = Stored(Self) \cup {k}
                /\ OneLeafEach(a)
           /\ k \in heap[node].objects =>
                /\ k \notin Stored(r)
                /\ Stored(r) = Stored(Self) \ {k}
                /\ OneLeafEach(r)

\* Every callback call recorded in t saw the tree as it is in t, every node
\* given to afterLeafCreated was a live leaf when the call was made, and no
\* node given to afterLeafRemoved was one.
HooksAfterChange(t) ==
  \A e \in t.seen :
    /\ e.view = View(t)
    /\ \A node \in e.args :
         LET live == node \in DOMAIN e.view.leaf /\ e.view.leaf[node]
         IN IF e.created THEN live ELSE ~live

\* C26: within one Build, Add or Remove every callback is called after the
\* structural change is complete: the nodes, leaf flags, NumNodes,
\* NumLeafNodes, NumObjects and Depth it can observe are those at return;
\* the nodes given to afterLeafCreated are live leaves and those given to
\* afterLeafRemoved are not.
C26_HooksAfterChange ==
  /\ (root = NULL /\ ~threw) => HooksAfterChange(Build(Self))
  /\ Built =>
       \A x \in 0..(h - 1), y \in 0..(w - 1), o \in 1..MaxPayload :
         /\ HooksAfterChange(Add(Self, x, y, o))
         /\ HooksAfterChange(Remove(Self, x, y, o))

\* A Remove of a stored triple merges leaves, and an Add of a new one splits
\* a leaf: both callbacks are called in each.
C26_Witness ==
  /\ Built
  /\ \E k \in Stored(Self) :
       LET r == Remove(Self, k[1], k[2], k[3])
       IN /\ r.removedArgs # {}
          /\ r.createdArgs # {}
          /\ DOMAIN r.heap # DOMAIN heap
  /\ \E x \in 0..(h - 1), y \in 0..(w - 1), o \in 1..MaxPayload :
       LET a == Add(Self, x, y, o)
       IN /\ Cardinality(a.seen) = 2
          /\ Cardinality(DOMAIN a.heap) > Cardinality(DOMAIN heap)

\* The tree t after the triple k is put into the leaf node, before any split
\* or merge (Add, l.690).
Inserted(t, node, k) ==
  [t EXCEPT !.heap[node].objects = @ \cup {k}, !.numObjects = @ + 1]

\* The tree t after the triple k is taken out of the leaf node, before any
\* merge or split (Remove, l.706).
Erased(t, node, k) ==
  [t EXCEPT !.heap[node].objects = @ \ {k}, !.numObjects = @ - 1]

\* The call that led from the tree s to the tree t did not both create and
\* erase nodes.
NotBoth(s, t) ==
  (DOMAIN t.heap \ DOMAIN s.heap = {}) \/ (DOMAIN s.heap \ DOMAIN t.heap = {})

\* C27: in one Add or Remove at most one of split-down and merge-up changes
\* the structure.  Add tries split-down first and merge-up only if the split
\* did nothing; Remove tries merge-up first and split-down only if the merge
\* did nothing; no call both creates and erases nodes.
C27_SplitOrMergeNotBoth ==
  Built =>
    \A x \in 0..(h - 1), y \in 0..(w - 1), o \in 1..MaxPayload :
      LET node == Find(Self, x, y)
          k == <<x, y, o>>
      IN node # NULL =>
           /\ k \notin heap[node].objects =>
                LET split == trySplitDown(Inserted(Self, node, k), node)
                    a == Add(Self, x, y, o)
                IN /\ split.ok => a = split.t
                   /\ ~split.ok =>
                        a = tryMergeUp(Inserted(Self, node, k), node).t
                   /\ NotBoth(Self, a)
           /\ k \in heap[node].objects =>
                LET merge == tryMergeUp(Erased(Self, node, k), node)
                    r == Remove(Self, x, y, o)
                IN /\ merge.ok => r = merge.t
                   /\ (~merge.ok /\ ~merge.t.threw) =>
                        r = trySplitDown(Erased(Self, node, k), node).t
                   /\ NotBoth(Self, r)

\* After the insert of an Add both a split of the leaf and a merge into its
\* parent are possible, and the Add splits.
C27_Witness ==
  /\ Built
  /\ \E x \in 0..(h - 1), y \in 0..(w - 1), o \in 1..MaxPayload :
       LET node == Find(Self, x, y)
           k == <<x, y, o>>
       IN /\ node # NULL
          /\ k \notin heap[node].objects
          /\ trySplitDown(Inserted(Self, node, k), node).ok
          /\ tryMergeUp(Inserted(Self, node, k), node).ok
          /\ DOMAIN Add(Self, x, y, o).heap \ DOMAIN heap # {}

\* C29: for every in-range position (x, y), FindSmallestNodeCoveringRange of
\* the one-cell range (x, y, x, y) returns the node Find(x, y) returns.
C29_FindAgreesWithCoveringRange ==
  Built =>
    \A x \in 0..(h - 1), y \in 0..(w - 1) :
      FindSmallestNodeCoveringRange(Self, x, y, x, y) = Find(Self, x, y)

\* The lexicographic order of triples.
TripleLeq(j, k) ==
  \/ j[1] < k[1]
  \/ j[1] = k[1] /\ j[2] < k[2]
  \/ j[1] = k[1] /\ j[2] = k[2] /\ j[3] <= k[3]

RECURSIVE AddAll(_, _)
\* The tree t after an Add of every triple of S, in lexicographic order.
AddAll(t, S) ==
  IF S = {} THEN t
  ELSE LET k == CHOOSE j \in S : \A i \in S : TripleLeq(j, i)
       IN AddAll(Add(t, k[1], k[2], k[3]), S \ {k})

\* The nodes of t with their rectangles, depths and leaf flags, and
\* NumNodes, NumLeafNodes and Depth.
Shape(t) ==
  [leaf |-> [node \in TreeNodes(t) |-> t.heap[node].isLeaf],
   numNodes |-> NumNodes(t),
   numLeafNodes |-> NumLeafNodes(t),
   depth |-> Depth(t)]

\* C30: the shape of the tree depends only on the set of stored triples,
\* not on the order of the operations: the tree reached has the nodes, leaf
\* flags, NumNodes, NumLeafNodes and Depth of the tree that Build and an Add
\* of each stored triple in lexicographic order give, whenever that one
\* stores the same set.
C30_HistoryIndependence ==
  Built =>
    LET other == AddAll(Build(Quadtree), Stored(Self))
    IN (~other.threw /\ Stored(other) = Stored(Self)) =>
         Shape(other) = Shape(Self)

====
